---- MODULE Spec2Model ----
(***************************************************************************)
(* A model of iceload: a schema-typed hierarchical document store kept in  *)
(* a flat byte-keyed map (sled), with prefix-watch subscriptions.          *)
(*                                                                         *)
(*   schema.rs   path codec (encode_ref / decode_ref) and schema resolve   *)
(*   server.rs   get / insert / update / remove / subscribe                *)
(*                                                                         *)
(* Strings are sequences of bytes (0..255); a path (Ref) is a sequence of  *)
(* strings; the store maps byte keys to byte values.                       *)
(***************************************************************************)
EXTENDS Integers, Sequences, FiniteSets, TLC

VARIABLES
    schema,     \* Server.schema: the schema the server was opened with
    store,      \* Server.store: the sled tree, a map from byte key to byte value
    last,       \* the last request served and its result
    sub,        \* the SubscriptionStream opened by subscribe(), or NoSub
    committed,  \* the transactions committed since the subscription was opened
    delivered,  \* the events the SubscriptionStream has yielded so far
    cpc,        \* codec round trip: position
    cpath,      \* codec round trip: the path under test
    cenc,       \* codec round trip: encode_ref(cpath)
    cdec,       \* codec round trip: decode_ref(cenc)
    cother,     \* a second path, to compare encodings
    cotherenc,  \* encode_ref(cother)
    resolved,   \* the result of Schema::resolve(cpath)
    perm,       \* client_task: what the permission script answers for each Operation
    spc,        \* client_task: where the session's ingress loop is
    nreq,       \* client_task: the number of messages taken from ws_recv
    responses,  \* client_task: the messages sent into send_resp, oldest first
    subscriptions, \* client_task: HashMap from key to the handle of its pump task
    pumps,      \* the pump tasks spawned by the session, in spawn order
    egress,     \* client_task: send_task, and how many responses it has written
    calls,      \* the mutations two threads have in flight, each with its position
    lock,       \* the thread whose transaction holds the tree, or 0
    round,      \* the store the in-flight mutations started from, and their overlap
    reader      \* a get in progress: the keys it has read so far and their values,
                \* and the stores there have been since it was called; a get
                \* that returned: its result, and what get gives on each of those

\* the variables of the pure-function harnesses other than the round trip's
pureVars == <<cother, cotherenc, resolved>>
\* the variables of a client session
concVars == <<calls, lock, round, reader>>

sessionVars == <<perm, spc, nreq, responses, subscriptions, pumps, egress>>

vars == <<schema, store, last, sub, committed, delivered, cpc, cpath, cenc, cdec,
          cother, cotherenc, resolved, perm, spc, nreq, responses, subscriptions, pumps,
          egress, calls, lock, round, reader>>

(***************************************************************************)
(* Bounds                                                                  *)
(***************************************************************************)
\* number of distinct member names clients use inside a collection
NumNames == 2
\* longest component name of the codec round trip
MaxNameLen == 2
\* longest path of the codec round trip
MaxPathLen == 3
\* transactions committed while a subscription is open
MaxCommits == 2
\* longest path of the two whose encodings are compared
MaxPairLen == 2
\* longest path handed to resolve on its own
MaxResolveLen == 4
\* messages a client session takes from its connection
MaxRequests == 3

(***************************************************************************)
(* Bytes and strings                                                       *)
(***************************************************************************)
\* std::mem::size_of::<usize>() on a 64-bit target
USIZE_LEN == 8

\* usize::to_le_bytes / u64 little-endian
RECURSIVE ToLeBytes(_, _)
ToLeBytes(n, width) ==
    IF width = 0 THEN <<>>
    ELSE <<n % 256>> \o ToLeBytes(n \div 256, width - 1)

RECURSIVE FromLeBytes(_)
FromLeBytes(bytes) ==
    IF bytes = <<>> THEN 0
    ELSE bytes[1] + 256 * FromLeBytes(Tail(bytes))

\* byte-wise lexicographic order of two strings (Ord for String / [u8])
RECURSIVE LexLessFrom(_, _, _)
LexLessFrom(a, b, i) ==
    IF i > Len(a) THEN i <= Len(b)
    ELSE IF i > Len(b) THEN FALSE
    ELSE IF a[i] # b[i] THEN a[i] < b[i]
    ELSE LexLessFrom(a, b, i + 1)

LexLess(a, b) == LexLessFrom(a, b, 1)

MinOf(S) == CHOOSE x \in S : \A y \in S : x = y \/ LexLess(x, y)

\* the elements of a set of strings in ascending order
RECURSIVE Sorted(_)
Sorted(S) ==
    IF S = {} THEN <<>>
    ELSE <<MinOf(S)>> \o Sorted(S \ {MinOf(S)})

IsPrefix(p, s) == Len(p) <= Len(s) /\ SubSeq(s, 1, Len(p)) = p

\* String::from_utf8: is the byte string well-formed UTF-8
RECURSIVE Utf8Valid(_)
Utf8Valid(b) ==
    LET cont(i) == i <= Len(b) /\ b[i] >= 128 /\ b[i] <= 191
    IN  IF b = <<>> THEN TRUE
        ELSE IF b[1] < 128 THEN Utf8Valid(Tail(b))
        ELSE IF b[1] >= 194 /\ b[1] <= 223
            THEN cont(2) /\ Utf8Valid(SubSeq(b, 3, Len(b)))
        ELSE IF b[1] >= 224 /\ b[1] <= 239
            THEN /\ cont(2) /\ cont(3)
                 /\ (b[1] = 224 => b[2] >= 160)
                 /\ (b[1] = 237 => b[2] <= 159)
                 /\ Utf8Valid(SubSeq(b, 4, Len(b)))
        ELSE IF b[1] >= 240 /\ b[1] <= 244
            THEN /\ cont(2) /\ cont(3) /\ cont(4)
                 /\ (b[1] = 240 => b[2] >= 144)
                 /\ (b[1] = 244 => b[2] <= 143)
                 /\ Utf8Valid(SubSeq(b, 5, Len(b)))
        ELSE FALSE

(***************************************************************************)
(* Path codec (schema.rs)                                                  *)
(***************************************************************************)
\* encode_ref with the slip of leaving the length out
RECURSIVE encode_ref_NoLen(_)
encode_ref_NoLen(refs) ==
    IF refs = <<>> THEN <<>>
    ELSE Head(refs) \o encode_ref_NoLen(Tail(refs))

\* encode_ref with the slip of writing the length as a single byte
RECURSIVE encode_ref_ByteLen(_)
encode_ref_ByteLen(refs) ==
    IF refs = <<>> THEN <<>>
    ELSE <<Len(Head(refs)) % 256>> \o Head(refs) \o encode_ref_ByteLen(Tail(refs))

\* Schema::encode_ref: each component as its length (usize, LE) then its bytes
RECURSIVE encode_ref(_)
encode_ref(refs) ==
    IF refs = <<>> THEN <<>>
    ELSE ToLeBytes(Len(Head(refs)), USIZE_LEN) \o Head(refs) \o encode_ref(Tail(refs))

\* Schema::decode_ref: the loop from byte offset idx with the components decoded so
\* far. A slice past the end of the input, or a component that is not UTF-8, panics.
RECURSIVE DecodeFrom(_, _, _)
DecodeFrom(encoded_ref, idx, decoded) ==
    IF ~(idx < Len(encoded_ref)) THEN [ok |-> TRUE, path |-> decoded]
    ELSE
        LET len_end == idx + USIZE_LEN
        IN  IF len_end > Len(encoded_ref) THEN [ok |-> FALSE, path |-> <<>>]
            ELSE
                LET str_len == FromLeBytes(SubSeq(encoded_ref, idx + 1, len_end))
                IN  IF len_end + str_len > Len(encoded_ref)
                        THEN [ok |-> FALSE, path |-> <<>>]
                    ELSE
                        LET str_bytes == SubSeq(encoded_ref, len_end + 1, len_end + str_len)
                        IN  IF ~Utf8Valid(str_bytes) THEN [ok |-> FALSE, path |-> <<>>]
                            ELSE DecodeFrom(encoded_ref, len_end + str_len,
                                            Append(decoded, str_bytes))

decode_ref(encoded_ref) == DecodeFrom(encoded_ref, 0, <<>>)

(***************************************************************************)
(* Schema tree (schema.rs)                                                 *)
(***************************************************************************)
\* enum SchemaItem
Scalar == [kind |-> "Scalar"]
Collection(inner) == [kind |-> "Collection", inner |-> inner]
Document(fields) == [kind |-> "Document", fields |-> fields]

\* enum SchemaResolutionError, enum ServerError
UnknownField == "UnknownField"
IllegalRefOnScalar == "IllegalRefOnScalar"
KeyNotFound == "KeyNotFound"
ExtraKeyFound == "ExtraKeyFound"
SchemaMismatch == "SchemaMismatch"
NonDocumentInsert == "NonDocumentInsert"

\* resolve with the slip of a collection not consuming the member's name
RECURSIVE resolve_KeepName(_, _)
resolve_KeepName(self, refs) ==
    IF refs = <<>> THEN [ok |-> TRUE, err |-> "", node |-> self]
    ELSE CASE self.kind = "Collection" -> resolve_KeepName(self.inner, refs)
           [] self.kind = "Document" ->
                IF Head(refs) \in DOMAIN self.fields
                    THEN resolve_KeepName(self.fields[Head(refs)], Tail(refs))
                    ELSE [ok |-> FALSE, err |-> UnknownField, node |-> self]
           [] self.kind = "Scalar" ->
                [ok |-> FALSE, err |-> IllegalRefOnScalar, node |-> self]

\* SchemaItem::resolve
RECURSIVE resolve(_, _)
resolve(self, refs) ==
    IF refs = <<>> THEN [ok |-> TRUE, err |-> "", node |-> self]
    ELSE CASE self.kind = "Collection" -> resolve(self.inner, Tail(refs))
           [] self.kind = "Document" ->
                IF Head(refs) \in DOMAIN self.fields
                    THEN resolve(self.fields[Head(refs)], Tail(refs))
                    ELSE [ok |-> FALSE, err |-> UnknownField, node |-> self]
           [] self.kind = "Scalar" ->
                [ok |-> FALSE, err |-> IllegalRefOnScalar, node |-> self]

\* the field names of the test schemas, as bytes
hello == <<104, 101, 108, 108, 111>>
world == <<119, 111, 114, 108, 100>>
new_york == <<110, 101, 119, 32, 121, 111, 114, 107>>
fruits == <<102, 114, 117, 105, 116, 115>>
color == <<99, 111, 108, 111, 114>>
bins == <<98, 105, 110, 115>>

\* tests::document_server, and the schema main() opens the server with
DocumentSchema == Document(hello :> Document(world :> Scalar @@ new_york :> Scalar))

\* tests::collection_server
CollectionSchema == Document(fruits :> Collection(Document(color :> Scalar)))

\* a collection whose members are collections of scalars
NestedSchema == Document(bins :> Collection(Collection(Scalar)))

Schemas == {DocumentSchema, CollectionSchema, NestedSchema}

(***************************************************************************)
(* JSON values (serde_json::Value) and results                             *)
(***************************************************************************)
VNull == [t |-> "Null"]
VString(s) == [t |-> "String", s |-> s]
VArray == [t |-> "Array"]
VObject(m) == [t |-> "Object", m |-> m]
EmptyMap == [n \in {} |-> VNull]

Ok(v) == [ok |-> TRUE, val |-> v]
Err(e) == [ok |-> FALSE, err |-> e]

(***************************************************************************)
(* The sled tree: a finite map from byte keys to byte values               *)
(***************************************************************************)
EmptyStore == [k \in {} |-> <<>>]
\* Tree::contains_key
StoreHas(s, k) == k \in DOMAIN s
\* Tree::insert
StorePut(s, k, v) == [x \in (DOMAIN s) \cup {k} |-> IF x = k THEN v ELSE s[x]]
\* Tree::remove
StoreDel(s, k) == [x \in (DOMAIN s) \ {k} |-> s[x]]

\* the presence marker of a document: &[1]
Marker == <<1>>

\* bincode::serialize(&HashSet<String>): the element count as u64, then each
\* string as its length (u64) and its bytes. A HashSet iterates in no
\* particular order; the elements are written in ascending order here.
RECURSIVE SerializeStrings(_)
SerializeStrings(names) ==
    IF names = <<>> THEN <<>>
    ELSE ToLeBytes(Len(Head(names)), 8) \o Head(names) \o SerializeStrings(Tail(names))

SerializeSet(keys) == ToLeBytes(Cardinality(keys), 8) \o SerializeStrings(Sorted(keys))

\* bincode::deserialize::<HashSet<String>>: count strings read from bytes
RECURSIVE DeserializeStrings(_, _)
DeserializeStrings(bytes, count) ==
    IF count = 0 THEN {}
    ELSE
        LET str_len == FromLeBytes(SubSeq(bytes, 1, 8))
        IN  {SubSeq(bytes, 9, 8 + str_len)}
                \cup DeserializeStrings(SubSeq(bytes, 9 + str_len, Len(bytes)), count - 1)

DeserializeSet(bytes) ==
    DeserializeStrings(SubSeq(bytes, 9, Len(bytes)), FromLeBytes(SubSeq(bytes, 1, 8)))

(***************************************************************************)
(* Server::get (server.rs)                                                 *)
(***************************************************************************)
\* the first failed result of a record of results, in iteration order, or none
FirstErr(results) ==
    LET bad == {n \in DOMAIN results : ~results[n].ok}
    IN  IF bad = {} THEN Ok(VNull) ELSE results[MinOf(bad)]

RECURSIVE get(_, _, _)
\* get with the slip of answering null for a collection that has no key
get_AbsentIsNull(st, root, key) ==
    LET r == resolve(root, key)
        encoded_ref == encode_ref(key)
    IN  IF ~r.ok THEN Err(r.err)
        ELSE CASE r.node.kind = "Collection" ->
                    IF ~StoreHas(st, encoded_ref) THEN Ok(VNull)
                    ELSE
                        LET keys == DeserializeSet(st[encoded_ref])
                            result == [child \in keys |-> get(st, root, Append(key, child))]
                        IN  IF \E child \in keys : ~result[child].ok
                                THEN FirstErr(result)
                                ELSE Ok(VObject([child \in keys |-> result[child].val]))
               [] r.node.kind = "Document" ->
                    IF ~StoreHas(st, encoded_ref) THEN Ok(VNull)
                    ELSE
                        LET fields == DOMAIN r.node.fields
                            values == [field \in fields |-> get(st, root, Append(key, field))]
                        IN  IF \E field \in fields : ~values[field].ok
                                THEN FirstErr(values)
                                ELSE Ok(VObject([field \in fields |-> values[field].val]))
               [] r.node.kind = "Scalar" ->
                    IF StoreHas(st, encoded_ref)
                        THEN Ok(VString(st[encoded_ref]))
                        ELSE Err(KeyNotFound)

get(st, root, key) ==
    LET r == resolve(root, key)
        encoded_ref == encode_ref(key)
    IN  IF ~r.ok THEN Err(r.err)
        ELSE CASE r.node.kind = "Collection" ->
                    IF ~StoreHas(st, encoded_ref) THEN Ok(VObject(EmptyMap))
                    ELSE
                        LET keys == DeserializeSet(st[encoded_ref])
                            result == [child \in keys |-> get(st, root, Append(key, child))]
                        IN  IF \E child \in keys : ~result[child].ok
                                THEN FirstErr(result)
                                ELSE Ok(VObject([child \in keys |-> result[child].val]))
               [] r.node.kind = "Document" ->
                    IF ~StoreHas(st, encoded_ref) THEN Ok(VNull)
                    ELSE
                        LET fields == DOMAIN r.node.fields
                            values == [field \in fields |-> get(st, root, Append(key, field))]
                        IN  IF \E field \in fields : ~values[field].ok
                                THEN FirstErr(values)
                                ELSE Ok(VObject([field \in fields |-> values[field].val]))
               [] r.node.kind = "Scalar" ->
                    IF StoreHas(st, encoded_ref)
                        THEN Ok(VString(st[encoded_ref]))
                        ELSE Err(KeyNotFound)

(***************************************************************************)
(* Transactions (sled::Tree::transaction, TransactionalTree)               *)
(*                                                                         *)
(* A transaction works on its own view of the tree: reads see its earlier  *)
(* writes, and nothing reaches the tree before the closure returns Ok. A   *)
(* handler result is [ok, err, tx]: the transaction as the handler left it *)
(* and, when it aborted, the error it aborted with.                        *)
(***************************************************************************)
NewTx(st) == [view |-> st, touched |-> {}]
\* TransactionalTree::get
TxGet(tx, k) == IF k \in DOMAIN tx.view THEN <<tx.view[k]>> ELSE <<>>
\* TransactionalTree::insert
TxPut(tx, k, v) == [view |-> StorePut(tx.view, k, v), touched |-> tx.touched \cup {k}]
\* TransactionalTree::remove
TxDel(tx, k) == [view |-> StoreDel(tx.view, k), touched |-> tx.touched \cup {k}]

Done(tx) == [ok |-> TRUE, err |-> "", tx |-> tx]
\* sled::transaction::abort
abort(tx, e) == [ok |-> FALSE, err |-> e, tx |-> tx]

\* the members of the parent's collection index: the stored set, or the empty set
IndexKeys(tx, encoded_collection_key) ==
    IF TxGet(tx, encoded_collection_key) = <<>> THEN {}
    ELSE DeserializeSet(TxGet(tx, encoded_collection_key)[1])

\* the index merge with the slip of storing the set at key itself
InsertIndex_AtKey(tx, root, key) ==
    IF Len(key) > 1 THEN
        LET parent_ref == SubSeq(key, 1, Len(key) - 1)
            parent_schema == resolve(root, parent_ref)
            keys == IndexKeys(tx, encode_ref(parent_ref))
            name == key[Len(key)]
        IN  IF ~parent_schema.ok THEN abort(tx, parent_schema.err)
            ELSE IF parent_schema.node.kind = "Collection" /\ name \notin keys
                THEN Done(TxPut(tx, encode_ref(key), SerializeSet(keys \cup {name})))
            ELSE Done(tx)
    ELSE Done(tx)

\* tx_insert, the index merge: add the last component of key to the set stored
\* at its parent, when the parent is a collection
InsertIndex(tx, root, key) ==
    IF Len(key) > 1 THEN
        LET parent_ref == SubSeq(key, 1, Len(key) - 1)
            parent_schema == resolve(root, parent_ref)
            encoded_collection_key == encode_ref(parent_ref)
            keys == IndexKeys(tx, encoded_collection_key)
            name == key[Len(key)]
        IN  IF ~parent_schema.ok THEN abort(tx, parent_schema.err)
            ELSE IF parent_schema.node.kind = "Collection" /\ name \notin keys
                THEN Done(TxPut(tx, encoded_collection_key, SerializeSet(keys \cup {name})))
            ELSE Done(tx)
    ELSE Done(tx)

\* RemoveIndex with the slip of writing back an empty set
RemoveIndexClear(tx, root, key) ==
    IF Len(key) > 1 THEN
        LET parent_ref == SubSeq(key, 1, Len(key) - 1)
            parent_schema == resolve(root, parent_ref)
        IN  IF ~parent_schema.ok THEN abort(tx, parent_schema.err)
            ELSE IF parent_schema.node.kind = "Collection"
                THEN Done(TxPut(tx, encode_ref(parent_ref), SerializeSet({})))
            ELSE Done(tx)
    ELSE Done(tx)

\* tx_remove, the index removal: take the last component of key out of the set
\* stored at its parent, when the parent is a collection, and write the set back
RemoveIndex(tx, root, key) ==
    IF Len(key) > 1 THEN
        LET parent_ref == SubSeq(key, 1, Len(key) - 1)
            parent_schema == resolve(root, parent_ref)
            encoded_collection_key == encode_ref(parent_ref)
            keys == IndexKeys(tx, encoded_collection_key)
            name == key[Len(key)]
        IN  IF ~parent_schema.ok THEN abort(tx, parent_schema.err)
            ELSE IF parent_schema.node.kind = "Collection"
                THEN Done(TxPut(tx, encoded_collection_key, SerializeSet(keys \ {name})))
            ELSE Done(tx)
    ELSE Done(tx)

RECURSIVE tx_insert(_, _, _, _, _)
RECURSIVE InsertEach(_, _, _, _, _, _)

\* the loops of tx_insert over the entries of obj (a serde_json Map iterates in
\* key order): insert obj[n] at key.n under schemas[n] for each n of names, in
\* order, stopping at the first one that aborts
InsertEach(tx, root, key, schemas, obj, names) ==
    IF names = <<>> THEN Done(tx)
    ELSE
        LET n == Head(names)
            r == tx_insert(tx, root, Append(key, n), schemas[n], obj[n])
        IN  IF ~r.ok THEN r
            ELSE InsertEach(r.tx, root, key, schemas, obj, Tail(names))

\* tx_insert with the slip of leaving out the loop over the declared fields
tx_insert_NoFieldCheck(tx, root, key, sch, val) ==
    LET encoded_ref == encode_ref(key)
        written ==
            CASE sch.kind = "Collection" ->
                    IF val.t # "Object" THEN abort(tx, SchemaMismatch)
                    ELSE InsertEach(tx, root, key, [n \in DOMAIN val.m |-> sch.inner],
                                    val.m, Sorted(DOMAIN val.m))
              [] sch.kind = "Document" ->
                    IF val.t # "Object" THEN abort(tx, SchemaMismatch)
                    ELSE IF \E entry \in DOMAIN val.m : entry \notin DOMAIN sch.fields
                        THEN abort(tx, ExtraKeyFound)
                    ELSE InsertEach(TxPut(tx, encoded_ref, Marker), root, key,
                                    sch.fields, val.m, Sorted(DOMAIN val.m))
              [] sch.kind = "Scalar" ->
                    IF val.t # "String" THEN abort(tx, SchemaMismatch)
                    ELSE Done(TxPut(tx, encoded_ref, val.s))
    IN  IF ~written.ok THEN written
        ELSE InsertIndex(written.tx, root, key)

\* TransactionHandler::tx_insert
tx_insert(tx, root, key, sch, val) ==
    LET encoded_ref == encode_ref(key)
        written ==
            CASE sch.kind = "Collection" ->
                    IF val.t # "Object" THEN abort(tx, SchemaMismatch)
                    ELSE InsertEach(tx, root, key, [n \in DOMAIN val.m |-> sch.inner],
                                    val.m, Sorted(DOMAIN val.m))
              [] sch.kind = "Document" ->
                    IF val.t # "Object" THEN abort(tx, SchemaMismatch)
                    ELSE IF \E entry \in DOMAIN val.m : entry \notin DOMAIN sch.fields
                        THEN abort(tx, ExtraKeyFound)
                    ELSE IF \E field \in DOMAIN sch.fields : field \notin DOMAIN val.m
                        THEN abort(tx, SchemaMismatch)
                    ELSE InsertEach(TxPut(tx, encoded_ref, Marker), root, key,
                                    sch.fields, val.m, Sorted(DOMAIN val.m))
              [] sch.kind = "Scalar" ->
                    IF val.t # "String" THEN abort(tx, SchemaMismatch)
                    ELSE Done(TxPut(tx, encoded_ref, val.s))
    IN  IF ~written.ok THEN written
        ELSE InsertIndex(written.tx, root, key)

RECURSIVE tx_update(_, _, _, _, _)
RECURSIVE UpdateEach(_, _, _, _, _, _)

\* the loops of tx_update over the entries of obj, in key order: a name that
\* schemas does not declare aborts with ExtraKeyFound
UpdateEach(tx, root, key, schemas, obj, names) ==
    IF names = <<>> THEN Done(tx)
    ELSE
        LET n == Head(names)
        IN  IF n \notin DOMAIN schemas THEN abort(tx, ExtraKeyFound)
            ELSE
                LET r == tx_update(tx, root, Append(key, n), schemas[n], obj[n])
                IN  IF ~r.ok THEN r
                    ELSE UpdateEach(r.tx, root, key, schemas, obj, Tail(names))

\* tx_update with the slip of writing a scalar that has no key yet
tx_update_Upsert(tx, root, key, sch, val) ==
    LET encoded_ref == encode_ref(key)
    IN  CASE sch.kind = "Collection" ->
                IF val.t # "Object" THEN abort(tx, SchemaMismatch)
                ELSE IF TxGet(tx, encoded_ref) = <<>> THEN abort(tx, KeyNotFound)
                ELSE UpdateEach(tx, root, key, [n \in DOMAIN val.m |-> sch.inner],
                                val.m, Sorted(DOMAIN val.m))
          [] sch.kind = "Document" ->
                IF val.t # "Object" THEN abort(tx, SchemaMismatch)
                ELSE
                    LET removed == TxDel(tx, encoded_ref)
                    IN  IF TxGet(removed, encoded_ref) = <<>>
                            THEN abort(removed, KeyNotFound)
                        ELSE UpdateEach(removed, root, key, sch.fields,
                                        val.m, Sorted(DOMAIN val.m))
          [] sch.kind = "Scalar" ->
                IF val.t # "String" THEN abort(tx, SchemaMismatch)
                ELSE Done(TxPut(tx, encoded_ref, val.s))

\* TransactionHandler::tx_update
tx_update(tx, root, key, sch, val) ==
    LET encoded_ref == encode_ref(key)
    IN  CASE sch.kind = "Collection" ->
                IF val.t # "Object" THEN abort(tx, SchemaMismatch)
                ELSE IF TxGet(tx, encoded_ref) = <<>> THEN abort(tx, KeyNotFound)
                ELSE UpdateEach(tx, root, key, [n \in DOMAIN val.m |-> sch.inner],
                                val.m, Sorted(DOMAIN val.m))
          [] sch.kind = "Document" ->
                IF val.t # "Object" THEN abort(tx, SchemaMismatch)
                ELSE
                    LET removed == TxDel(tx, encoded_ref)
                    IN  IF TxGet(removed, encoded_ref) = <<>>
                            THEN abort(removed, KeyNotFound)
                        ELSE UpdateEach(removed, root, key, sch.fields,
                                        val.m, Sorted(DOMAIN val.m))
          [] sch.kind = "Scalar" ->
                IF val.t # "String" THEN abort(tx, SchemaMismatch)
                ELSE IF TxGet(tx, encoded_ref) = <<>> THEN abort(tx, KeyNotFound)
                ELSE Done(TxPut(tx, encoded_ref, val.s))

RECURSIVE tx_remove(_, _, _, _)
RECURSIVE RemoveEach(_, _, _, _, _)

\* the loops of tx_remove: remove key.n under schemas[n] for each n of names
RemoveEach(tx, root, key, schemas, names) ==
    IF names = <<>> THEN Done(tx)
    ELSE
        LET n == Head(names)
            r == tx_remove(tx, root, Append(key, n), schemas[n])
        IN  IF ~r.ok THEN r
            ELSE RemoveEach(r.tx, root, key, schemas, Tail(names))

\* TransactionHandler::tx_remove
tx_remove(tx, root, key, sch) ==
    LET encoded_ref == encode_ref(key)
        removed ==
            CASE sch.kind = "Collection" ->
                    IF TxGet(tx, encoded_ref) = <<>> THEN abort(tx, KeyNotFound)
                    ELSE
                        LET keys == DeserializeSet(TxGet(tx, encoded_ref)[1])
                            r == RemoveEach(tx, root, key, [n \in keys |-> sch.inner],
                                            Sorted(keys))
                        IN  IF ~r.ok THEN r ELSE Done(TxDel(r.tx, encoded_ref))
              [] sch.kind = "Document" ->
                    RemoveEach(TxDel(tx, encoded_ref), root, key, sch.fields,
                               Sorted(DOMAIN sch.fields))
              [] sch.kind = "Scalar" -> Done(TxDel(tx, encoded_ref))
    IN  IF ~removed.ok THEN removed
        ELSE RemoveIndex(removed.tx, root, key)

(***************************************************************************)
(* Server::insert / update / remove and Server::transaction (server.rs)    *)
(*                                                                         *)
(* An operation yields [res, store, written]: its result, the tree after   *)
(* it, and the keys its commit wrote or deleted.                           *)
(***************************************************************************)
Unchanged(st, e) == [res |-> Err(e), store |-> st, written |-> {}]

\* transaction with the slip of keeping the writes of an aborted handler
transactionNoRollback(st, r) ==
    IF r.ok
        THEN [res |-> Ok(VNull), store |-> r.tx.view, written |-> r.tx.touched]
        ELSE [res |-> Err(r.err), store |-> r.tx.view, written |-> r.tx.touched]

\* Server::transaction with tx_result: commit what the handler wrote when it
\* returned Ok; on abort drop all of it and return the error
transaction(st, r) ==
    IF r.ok
        THEN [res |-> Ok(VNull), store |-> r.tx.view, written |-> r.tx.touched]
        ELSE Unchanged(st, r.err)

\* insert with the slip of handing a Scalar target to tx_insert too
insert_AnyNode(st, root, key, val) ==
    LET sch == resolve(root, key)
    IN  IF ~sch.ok THEN Unchanged(st, sch.err)
        ELSE transaction(st, tx_insert(NewTx(st), root, key, sch.node, val))

\* Server::insert
insert(st, root, key, val) ==
    LET sch == resolve(root, key)
    IN  IF ~sch.ok THEN Unchanged(st, sch.err)
        ELSE IF sch.node.kind = "Scalar" THEN Unchanged(st, NonDocumentInsert)
        ELSE transaction(st, tx_insert(NewTx(st), root, key, sch.node, val))

\* update with the slip of running the insert handler
update_AsInsert(st, root, key, val) ==
    LET sch == resolve(root, key)
    IN  IF ~sch.ok THEN Unchanged(st, sch.err)
        ELSE transaction(st, tx_insert(NewTx(st), root, key, sch.node, val))

\* Server::update
update(st, root, key, val) ==
    LET sch == resolve(root, key)
    IN  IF ~sch.ok THEN Unchanged(st, sch.err)
        ELSE transaction(st, tx_update(NewTx(st), root, key, sch.node, val))

\* Server::remove
remove(st, root, key) ==
    LET sch == resolve(root, key)
    IN  IF ~sch.ok THEN Unchanged(st, sch.err)
        ELSE transaction(st, tx_remove(NewTx(st), root, key, sch.node))

(***************************************************************************)
(* The requests of a run: paths and values drawn from small sets           *)
(***************************************************************************)
\* the names clients give to collection members: "a", "aa", ...
MemberName(i) == [j \in 1..i |-> 97]
MemberNames == {MemberName(i) : i \in 1..NumNames}
\* a collection inside a collection is given one member name
NamesAt(d) == IF d = 0 THEN MemberNames ELSE {MemberName(1)}
\* a name no schema declares: "zz"
Undeclared == <<122, 122>>
\* the scalar strings clients write: "1" and "2"
ScalarVals == {<<49>>, <<50>>}

\* the paths below node that resolve, each with its node and the number of
\* collections on the way to it
RECURSIVE Targets(_, _, _)
Targets(node, path, d) ==
    {[path |-> path, node |-> node, d |-> d]} \cup
    CASE node.kind = "Scalar" -> {}
      [] node.kind = "Document" ->
            UNION {Targets(node.fields[f], Append(path, f), d) : f \in DOMAIN node.fields}
      [] node.kind = "Collection" ->
            UNION {Targets(node.inner, Append(path, n), d + 1) : n \in NamesAt(d)}

\* paths that do not resolve: an undeclared field, a path through a scalar
BadPaths(root) ==
    {<<Undeclared>>} \cup
    {Append(t.path, MemberName(1)) : t \in {x \in Targets(root, <<>>, 0) : x.node.kind = "Scalar"}}

\* the records over the names in names whose entries are drawn from vals[n]
Records(names, vals) ==
    {m \in [names -> UNION {vals[n] : n \in names}] : \A n \in names : m[n] \in vals[n]}

\* the values insert accepts at node
RECURSIVE ValidValues(_, _)
ValidValues(node, d) ==
    CASE node.kind = "Scalar" -> {VString(s) : s \in ScalarVals}
      [] node.kind = "Document" ->
            {VObject(m) : m \in Records(DOMAIN node.fields,
                [f \in DOMAIN node.fields |-> ValidValues(node.fields[f], d)])}
      [] node.kind = "Collection" ->
            UNION {{VObject(m) : m \in [D -> ValidValues(node.inner, d + 1)]} :
                        D \in SUBSET NamesAt(d)}

\* one of them
RECURSIVE Canon(_)
Canon(node) ==
    CASE node.kind = "Scalar" -> VString(<<49>>)
      [] node.kind = "Document" -> VObject([f \in DOMAIN node.fields |-> Canon(node.fields[f])])
      [] node.kind = "Collection" -> VObject(EmptyMap)

Without(m, n) == [x \in (DOMAIN m) \ {n} |-> m[x]]

\* values insert rejects at node: of the wrong kind, a document that lacks a
\* field or has an undeclared one, and a record with such a value inside it,
\* alone or after a well-formed sibling
RECURSIVE BadValues(_, _)
BadValues(node, d) ==
    CASE node.kind = "Scalar" -> {VArray}
      [] node.kind = "Document" ->
            LET m == Canon(node).m
            IN  {VArray, VObject(m @@ (Undeclared :> VString(<<49>>))),
                 VObject(Undeclared :> VString(<<49>>))}
                \cup {VObject(Without(m, f)) : f \in DOMAIN m}
                \cup UNION {{VObject((f :> b) @@ m) : b \in BadValues(node.fields[f], d)} :
                                f \in DOMAIN m}
      [] node.kind = "Collection" ->
            LET bad == BadValues(node.inner, d + 1)
                n1 == MemberName(1)
                n2 == MemberName(2)
            IN  {VArray} \cup {VObject(n1 :> b) : b \in bad}
                \cup (IF n2 \in NamesAt(d)
                        THEN {VObject((n1 :> Canon(node.inner)) @@ (n2 :> b)) : b \in bad}
                        ELSE {})

\* the values update is called with at node: a string or not at a scalar; a
\* record of some of the fields, or with an undeclared one, at a document; a
\* record of members at a collection
RECURSIVE UpdateValues(_, _)
UpdateValues(node, d) ==
    CASE node.kind = "Scalar" -> {VString(s) : s \in ScalarVals} \cup {VArray}
      [] node.kind = "Document" ->
            {VArray, VObject(Undeclared :> VString(<<49>>))} \cup
            UNION {{VObject(m) : m \in Records(D,
                        [f \in D |-> UpdateValues(node.fields[f], d) \ {VArray}])} :
                            D \in SUBSET DOMAIN node.fields}
      [] node.kind = "Collection" ->
            {VArray} \cup
            UNION {{VObject(m) : m \in [D -> UpdateValues(node.inner, d + 1) \ {VArray}]} :
                        D \in SUBSET NamesAt(d)}

\* the values insert is called with at a scalar: a string, null, an array, a record
ScalarInsertValues == {VString(<<50>>), VNull, VArray, VObject(EmptyMap)}

\* the requests of each kind, per schema: <<path, value>>
InsertRequests ==
    [root \in Schemas |->
        UNION {{<<t.path, v>> : v \in
                    IF t.node.kind = "Scalar" THEN ScalarInsertValues
                    ELSE ValidValues(t.node, t.d) \cup BadValues(t.node, t.d)} :
                        t \in Targets(root, <<>>, 0)}
        \cup {<<p, VObject(EmptyMap)>> : p \in BadPaths(root)}]

UpdateRequests ==
    [root \in Schemas |->
        UNION {{<<t.path, v>> : v \in UpdateValues(t.node, t.d)} : t \in Targets(root, <<>>, 0)}
        \cup {<<p, VObject(EmptyMap)>> : p \in BadPaths(root)}]

\* the paths clients read: those that resolve and those that do not
GetRequests ==
    [root \in Schemas |-> {t.path : t \in Targets(root, <<>>, 0)} \cup BadPaths(root)]

RemoveRequests ==
    [root \in Schemas |-> {t.path : t \in Targets(root, <<>>, 0)} \cup BadPaths(root)]

(***************************************************************************)
(* The store under a sequence of requests                                  *)
(***************************************************************************)
NoRequest == [op |-> "none", key |-> <<>>, val |-> VNull, res |-> Ok(VNull)]

\* a thread that is not in a call, and a get that has not been called
Idle == [pc |-> "idle", op |-> "none", key |-> <<>>, val |-> VNull,
         out |-> [res |-> Ok(VNull), store |-> EmptyStore, written |-> {}]]
NoReader == [pc |-> "idle", key |-> <<>>, seen |-> {}, view |-> EmptyStore,
             stores |-> {}, res |-> Ok(VNull), atomic |-> {}]

\* no thread is in a call
NoCalls ==
    /\ calls = [w \in {1, 2} |-> Idle]
    /\ lock = 0
    /\ round = [n |-> 0, store |-> EmptyStore, overlapped |-> FALSE]
    /\ reader = NoReader

NoSub == [active |-> FALSE, key |-> <<>>, prefix |-> <<>>, queue |-> <<>>]

InitServer ==
    /\ schema \in Schemas
    /\ store = EmptyStore
    /\ last = NoRequest
    /\ NoCalls
    /\ sub = NoSub
    /\ committed = <<>>
    /\ delivered = <<>>

CodecIdle ==
    /\ cpc = "idle"
    /\ cpath = <<>>
    /\ cenc = <<>>
    /\ cdec = [ok |-> TRUE, path |-> <<>>]

\* no resolve or second encoding under test
PureIdle ==
    /\ cother = <<>>
    /\ cotherenc = <<>>
    /\ resolved = [ok |-> TRUE, err |-> "", node |-> Scalar]

\* no client connected
NoSession ==
    /\ perm = <<>>
    /\ spc = "none"
    /\ nreq = 0
    /\ responses = <<>>
    /\ subscriptions = <<>>
    /\ pumps = <<>>
    /\ egress = [alive |-> FALSE, sent |-> 0]

Init == InitServer /\ CodecIdle /\ PureIdle /\ NoSession

\* a client calls get; the call runs to its end
Get ==
    /\ last.op = "none"
    /\ \E key \in GetRequests[schema] :
        /\ last' = [op |-> "get", key |-> key, val |-> VNull, res |-> get(store, schema, key)]
        /\ UNCHANGED <<schema, store, sub, committed, delivered, cpc, cpath, cenc, cdec,
                       pureVars, concVars, sessionVars>>

\* a client calls insert, update or remove; the call runs to its end
Insert ==
    /\ last.op = "none"
    /\ \E rq \in InsertRequests[schema] :
        LET out == insert(store, schema, rq[1], rq[2])
        IN  /\ store' = out.store
            /\ last' = [op |-> "insert", key |-> rq[1], val |-> rq[2], res |-> out.res]
            /\ UNCHANGED <<schema, sub, committed, delivered, cpc, cpath, cenc, cdec, pureVars, concVars, sessionVars>>

Update ==
    /\ last.op = "none"
    /\ \E rq \in UpdateRequests[schema] :
        LET out == update(store, schema, rq[1], rq[2])
        IN  /\ store' = out.store
            /\ last' = [op |-> "update", key |-> rq[1], val |-> rq[2], res |-> out.res]
            /\ UNCHANGED <<schema, sub, committed, delivered, cpc, cpath, cenc, cdec, pureVars, concVars, sessionVars>>

Remove ==
    /\ last.op = "none"
    /\ \E key \in RemoveRequests[schema] :
        LET out == remove(store, schema, key)
        IN  /\ store' = out.store
            /\ last' = [op |-> "remove", key |-> key, val |-> VNull, res |-> out.res]
            /\ UNCHANGED <<schema, sub, committed, delivered, cpc, cpath, cenc, cdec, pureVars, concVars, sessionVars>>

\* the caller has taken the result; the server is ready for the next call
Return ==
    /\ last.op # "none"
    /\ last' = NoRequest
    /\ UNCHANGED <<schema, store, sub, committed, delivered, cpc, cpath, cenc, cdec, pureVars, concVars, sessionVars>>

Next == Get \/ Insert \/ Update \/ Remove \/ Return

Spec == Init /\ [][Next]_vars

(***************************************************************************)
(* Subscriptions: Server::subscribe and SubscriptionStream (server.rs)     *)
(*                                                                         *)
(* sled's watch_prefix hands every committed write of a key that starts    *)
(* with the prefix to the Subscriber, one sled::Event per key the          *)
(* transaction wrote, with the key's final value, in the order of the      *)
(* commits. sub.queue is what the Subscriber holds and has not yielded.    *)
(* Each event carries the number of its commit, which the code never reads.*)
(***************************************************************************)
\* sled::Event::Insert {key, value} or Remove {key} for key k of a commit
RawEvent(st, k, n) ==
    IF k \in DOMAIN st
        THEN [type |-> "Insert", key |-> k, value |-> st[k], commit |-> n]
        ELSE [type |-> "Remove", key |-> k, value |-> <<>>, commit |-> n]

\* the events of commit n, which left the tree as st and wrote the keys written
CommitEvents(st, written, n) ==
    LET keys == Sorted(written)
    IN  [i \in 1..Len(keys) |-> RawEvent(st, keys[i], n)]

\* Tree::watch_prefix: the events of a commit that reach a subscriber of prefix
Watched(prefix, events) == SelectSeq(events, LAMBDA e : IsPrefix(prefix, e.key))

\* Server::subscribe
subscribe(key) ==
    [active |-> TRUE, key |-> key, prefix |-> encode_ref(key), queue |-> <<>>]

\* Subscriber::poll_unpin with the LIFO slip: the newest event first
poll_unpin_Newest(queue) ==
    [evt |-> queue[Len(queue)], rest |-> SubSeq(queue, 1, Len(queue) - 1)]

\* Subscriber::poll_unpin: the oldest event the subscriber holds
poll_unpin(queue) == [evt |-> Head(queue), rest |-> Tail(queue)]

\* project with the slip of reporting a removal as an insert of no bytes
projectAsInsert(evt) ==
    [type |-> "Insert", key |-> decode_ref(evt.key).path, value |-> evt.value,
     commit |-> evt.commit]

\* the closure of poll_next: sled::Event to Event, the key decoded to a Ref
project(evt) ==
    IF evt.type = "Insert"
        THEN [type |-> "Insert", key |-> decode_ref(evt.key).path, value |-> evt.value,
              commit |-> evt.commit]
        ELSE [type |-> "Remove", key |-> decode_ref(evt.key).path, value |-> <<>>,
              commit |-> evt.commit]

\* SubscriptionStream::poll_next when an event is ready
poll_next(stream) ==
    LET polled == poll_unpin(stream.queue)
    IN  [item |-> project(polled.evt), stream |-> [stream EXCEPT !.queue = polled.rest]]

\* the requests made while a subscription may be open: two sibling members,
\* one name a prefix of the other, and one value per shape
SubInsertRequests ==
    (DocumentSchema :>
        {<<(<<hello>>), Canon(DocumentSchema.fields[hello])>>,
         <<(<<>>), Canon(DocumentSchema)>>}) @@
    (CollectionSchema :>
        LET member == Canon(CollectionSchema.fields[fruits].inner)
            both == (MemberName(1) :> member) @@ (MemberName(2) :> member)
        IN  {<<(<<fruits, MemberName(1)>>), member>>,
             <<(<<fruits, MemberName(2)>>), member>>,
             <<(<<fruits>>), VObject(both)>>,
             <<(<<>>), VObject(fruits :> VObject(MemberName(1) :> member))>>})

SubUpdateRequests ==
    (DocumentSchema :>
        {<<(<<hello, world>>), VString(<<49>>)>>,
         <<(<<hello, world>>), VString(<<50>>)>>,
         <<(<<hello, new_york>>), VString(<<50>>)>>}) @@
    (CollectionSchema :>
        {<<(<<fruits, MemberName(1), color>>), VString(<<49>>)>>,
         <<(<<fruits, MemberName(1), color>>), VString(<<50>>)>>,
         <<(<<fruits, MemberName(2), color>>), VString(<<50>>)>>})

SubRemoveRequests ==
    (DocumentSchema :> {<<>>, <<hello>>, <<hello, world>>}) @@
    (CollectionSchema :>
        {<<>>, <<fruits>>, <<fruits, MemberName(1)>>, <<fruits, MemberName(1), color>>})

SubscribePaths ==
    (DocumentSchema :> {<<>>, <<hello>>, <<hello, world>>}) @@
    (CollectionSchema :>
        {<<>>, <<fruits>>, <<fruits, MemberName(1)>>, <<fruits, MemberName(2)>>,
         <<fruits, MemberName(1), color>>})

InitSub ==
    /\ schema \in {DocumentSchema, CollectionSchema}
    /\ store = EmptyStore
    /\ last = NoRequest
    /\ NoCalls
    /\ sub = NoSub
    /\ committed = <<>>
    /\ delivered = <<>>
    /\ CodecIdle
    /\ PureIdle
    /\ NoSession

\* a commit: the tree changes, and an open subscription is handed its events
Commit(op, key, val, out) ==
    /\ sub.active => Len(committed) < MaxCommits
    /\ out.res.ok
    /\ store' = out.store
    /\ IF sub.active
        THEN LET n == Len(committed) + 1
                 events == CommitEvents(out.store, out.written, n)
             IN  /\ committed' = Append(committed,
                        [op |-> op, key |-> key, val |-> val, events |-> events])
                 /\ sub' = [sub EXCEPT !.queue = sub.queue \o Watched(sub.prefix, events)]
        ELSE UNCHANGED <<sub, committed>>
    /\ UNCHANGED <<schema, last, delivered, cpc, cpath, cenc, cdec, pureVars, concVars, sessionVars>>

SubInsert ==
    \E rq \in SubInsertRequests[schema] :
        Commit("insert", rq[1], rq[2], insert(store, schema, rq[1], rq[2]))

SubUpdate ==
    \E rq \in SubUpdateRequests[schema] :
        Commit("update", rq[1], rq[2], update(store, schema, rq[1], rq[2]))

SubRemove ==
    \E key \in SubRemoveRequests[schema] :
        Commit("remove", key, VNull, remove(store, schema, key))

Subscribe ==
    /\ ~sub.active
    /\ \E key \in SubscribePaths[schema] : sub' = subscribe(key)
    /\ UNCHANGED <<schema, store, last, committed, delivered, cpc, cpath, cenc, cdec, pureVars, concVars, sessionVars>>

\* the consumer of the stream takes the next event
PollNext ==
    /\ sub.active
    /\ sub.queue # <<>>
    /\ LET polled == poll_next(sub)
       IN  /\ sub' = polled.stream
           /\ delivered' = Append(delivered, polled.item)
    /\ UNCHANGED <<schema, store, last, committed, cpc, cpath, cenc, cdec, pureVars, concVars, sessionVars>>

NextSub == SubInsert \/ SubUpdate \/ SubRemove \/ Subscribe \/ PollNext

SpecSub == InitSub /\ [][NextSub]_vars

(***************************************************************************)
(* The path codec on its own: a path is encoded and decoded again          *)
(***************************************************************************)
\* the bytes of the names: "a", and the two bytes of U+00E9
CodecBytes == {97, 195, 169}

RECURSIVE BytesUpTo(_)
BytesUpTo(n) ==
    IF n = 0 THEN {<<>>}
    ELSE BytesUpTo(n - 1) \cup
         {Append(b, x) : b \in {y \in BytesUpTo(n - 1) : Len(y) = n - 1}, x \in CodecBytes}

\* the strings of at most MaxNameLen bytes: a String holds well-formed UTF-8
CodecNames == {b \in BytesUpTo(MaxNameLen) : Utf8Valid(b)}

RECURSIVE PathsUpTo(_)
PathsUpTo(n) ==
    IF n = 0 THEN {<<>>}
    ELSE PathsUpTo(n - 1) \cup
         {Append(p, c) : p \in {q \in PathsUpTo(n - 1) : Len(q) = n - 1}, c \in CodecNames}

CodecPaths == PathsUpTo(MaxPathLen)

InitCodec ==
    /\ schema = DocumentSchema
    /\ store = EmptyStore
    /\ last = NoRequest
    /\ NoCalls
    /\ sub = NoSub
    /\ committed = <<>>
    /\ delivered = <<>>
    /\ cpc = "start"
    /\ cpath \in CodecPaths
    /\ cenc = <<>>
    /\ cdec = [ok |-> TRUE, path |-> <<>>]
    /\ PureIdle
    /\ NoSession

Encode ==
    /\ cpc = "start"
    /\ cenc' = encode_ref(cpath)
    /\ cpc' = "encoded"
    /\ UNCHANGED <<schema, store, last, sub, committed, delivered, cpath, cdec, pureVars, concVars, sessionVars>>

Decode ==
    /\ cpc = "encoded"
    /\ cdec' = decode_ref(cenc)
    /\ cpc' = "decoded"
    /\ UNCHANGED <<schema, store, last, sub, committed, delivered, cpath, cenc, pureVars, concVars, sessionVars>>

NextCodec == Encode \/ Decode

SpecCodec == InitCodec /\ [][NextCodec]_vars

(***************************************************************************)
(* encode_ref on two paths at once                                         *)
(***************************************************************************)
\* a server that was opened and is not used
ServerIdle ==
    /\ schema = DocumentSchema
    /\ store = EmptyStore
    /\ last = NoRequest
    /\ NoCalls
    /\ sub = NoSub
    /\ committed = <<>>
    /\ delivered = <<>>

PairPaths == PathsUpTo(MaxPairLen)

InitPrefix ==
    /\ ServerIdle
    /\ NoSession
    /\ cpc = "start"
    /\ cpath \in PairPaths
    /\ cother \in PairPaths
    /\ cenc = <<>>
    /\ cotherenc = <<>>
    /\ cdec = [ok |-> TRUE, path |-> <<>>]
    /\ resolved = [ok |-> TRUE, err |-> "", node |-> Scalar]

EncodePair ==
    /\ cpc = "start"
    /\ cenc' = encode_ref(cpath)
    /\ cotherenc' = encode_ref(cother)
    /\ cpc' = "encoded"
    /\ UNCHANGED <<schema, store, last, sub, committed, delivered, cpath, cdec,
                   cother, resolved, sessionVars, concVars>>

NextPrefix == EncodePair

SpecPrefix == InitPrefix /\ [][NextPrefix]_vars

(***************************************************************************)
(* decode_ref on bytes that may be cut short                               *)
(***************************************************************************)
\* the first n bytes of every encoded path: whole encodings, encodings cut
\* inside a length field, and encodings cut inside the bytes of a component
Truncations(bytes) == {SubSeq(bytes, 1, n) : n \in 0..Len(bytes)}

InitDecode ==
    /\ ServerIdle
    /\ NoSession
    /\ PureIdle
    /\ cpc = "encoded"
    /\ cpath \in CodecPaths
    /\ cenc \in Truncations(encode_ref(cpath))
    /\ cdec = [ok |-> TRUE, path |-> <<>>]

\* decode_ref(cenc): it returns the path, or the thread panics on a slice
\* out of range or on the unwrap of from_utf8
DecodeBytes ==
    /\ cpc = "encoded"
    /\ cdec' = decode_ref(cenc)
    /\ cpc' = IF decode_ref(cenc).ok THEN "decoded" ELSE "panicked"
    /\ UNCHANGED <<schema, store, last, sub, committed, delivered, cpath, cenc,
                   pureVars, concVars, sessionVars>>

NextDecode == DecodeBytes

SpecDecode == InitDecode /\ [][NextDecode]_vars

(***************************************************************************)
(* Schema::resolve on its own                                              *)
(***************************************************************************)
\* the names of the paths resolved: every declared field, member names, and
\* a name no document declares
ResolveNames ==
    {hello, world, new_york, fruits, color, bins, MemberName(1), MemberName(2), Undeclared}

RECURSIVE ResolvePathsUpTo(_)
ResolvePathsUpTo(n) ==
    IF n = 0 THEN {<<>>}
    ELSE ResolvePathsUpTo(n - 1) \cup
         {Append(q, c) : q \in {x \in ResolvePathsUpTo(n - 1) : Len(x) = n - 1},
                         c \in ResolveNames}

ResolvePaths == ResolvePathsUpTo(MaxResolveLen)

InitResolve ==
    /\ schema \in Schemas
    /\ store = EmptyStore
    /\ last = NoRequest
    /\ NoCalls
    /\ sub = NoSub
    /\ committed = <<>>
    /\ delivered = <<>>
    /\ NoSession
    /\ cpc = "start"
    /\ cpath \in ResolvePaths
    /\ cenc = <<>>
    /\ cdec = [ok |-> TRUE, path |-> <<>>]
    /\ PureIdle

\* Schema::resolve(cpath)
Resolve ==
    /\ cpc = "start"
    /\ resolved' = resolve(schema, cpath)
    /\ cpc' = "resolved"
    /\ UNCHANGED <<schema, store, last, sub, committed, delivered, cpath, cenc, cdec,
                   cother, cotherenc, sessionVars, concVars>>

NextResolve == Resolve

SpecResolve == InitResolve /\ [][NextResolve]_vars

(***************************************************************************)
(* A client session: client_task (main.rs)                                 *)
(*                                                                         *)
(* One connection to the server of main(), whose schema is the document    *)
(* schema. Each message taken from the connection is handled to its end    *)
(* before the next is taken; the pump tasks spawned for subscriptions run  *)
(* beside the ingress loop. Every message sent into send_resp carries the  *)
(* number of the request it came from, which the code does not send.       *)
(***************************************************************************)
\* enum Operation, as the string Permissions::check hands to the script
Operations == {"read", "insert", "update", "remove"}

\* what a permission script answers: true, false, or a Lua error
AllowAll == [op \in Operations |-> "allow"]
DenyAll == [op \in Operations |-> "deny"]
ReadOnly == [op \in Operations |-> IF op = "read" THEN "allow" ELSE "deny"]
LuaError == [op \in Operations |-> "error"]
PermissionScripts == {AllowAll, DenyAll, ReadOnly, LuaError}

\* Permissions::check
check(script, op) == script[op]

\* enum ServerMessage, as main.rs builds it
None == [some |-> FALSE, v |-> <<>>]
Some(v) == [some |-> TRUE, v |-> v]
Error(text) == [t |-> "Error", text |-> text, value |-> VNull, key |-> <<>>, opt |-> None]
Value(v) == [t |-> "Value", text |-> "", value |-> v, key |-> <<>>, opt |-> None]
SubscriptionUpdate(key, opt) ==
    [t |-> "SubscriptionUpdate", text |-> "", value |-> VNull, key |-> key, opt |-> opt]

\* format!("{e}"): the Display of ServerError and SchemaResolutionError (the
\* name an UnknownField carries is not kept by the model)
Display(e) ==
    CASE e = KeyNotFound -> "key not found"
      [] e = ExtraKeyFound -> "extra key found"
      [] e = SchemaMismatch -> "schema mismatch"
      [] e = NonDocumentInsert ->
            "only documents and collections may be inserted, scalar values"
      [] e = UnknownField -> "unknown field: "
      [] e = IllegalRefOnScalar -> "path continues through scalar value"

\* send_resp.send(msg) while handling request n
Send(chan, n, msg) == Append(chan, [req |-> n, msg |-> msg])

\* the messages of a connection
SessionGets == {<<>>, <<hello>>, <<hello, world>>, <<Undeclared>>}
SessionInserts ==
    {<<(<<hello>>), Canon(DocumentSchema.fields[hello])>>, <<(<<hello>>), VArray>>}
SessionUpdates == {<<(<<hello, world>>), VString(<<50>>)>>}
SessionRemoves == {<<hello>>, <<hello, world>>}
SessionSubscribes == {<<hello>>, <<hello, world>>}

InitSession ==
    /\ schema = DocumentSchema
    /\ store = EmptyStore
    /\ last = NoRequest
    /\ NoCalls
    /\ sub = NoSub
    /\ committed = <<>>
    /\ delivered = <<>>
    /\ CodecIdle
    /\ PureIdle
    /\ perm \in PermissionScripts
    /\ spc = "running"
    /\ nreq = 0
    /\ responses = <<>>
    /\ subscriptions = <<>>
    /\ pumps = <<>>
    /\ egress = [alive |-> TRUE, sent |-> 0]

\* ws_recv.next() yields a message that decodes
Receives ==
    /\ spc = "running"
    /\ nreq < MaxRequests
    /\ nreq' = nreq + 1

\* what the handler does before the operation: ask the script; on a Lua error
\* the ? leaves client_task, on false Error("permissions") is sent, and in both
\* other cases the handler goes on
Checked(op) ==
    LET answer == check(perm, op)
    IN  [goes_on |-> answer # "error",
         chan |-> IF answer = "deny"
                    THEN Send(responses, nreq + 1, Error("permissions"))
                    ELSE responses]

\* sled hands the events of a commit to the subscriber of every pump that runs
Notify(tasks, st, written, n) ==
    [i \in DOMAIN tasks |->
        IF tasks[i].alive
            THEN [tasks[i] EXCEPT !.stream.queue =
                        @ \o Watched(tasks[i].stream.prefix, CommitEvents(st, written, n))]
            ELSE tasks[i]]

\* ClientMessage::Get
SessGet ==
    /\ Receives
    /\ \E key \in SessionGets :
        LET before == Checked("read")
            value == get(store, schema, key)
        IN  /\ last' = [op |-> "get", key |-> key, val |-> VNull, res |-> value]
            /\ IF ~before.goes_on
                    THEN spc' = "failed" /\ responses' = before.chan
                ELSE IF ~value.ok
                    THEN spc' = "panicked" /\ responses' = before.chan
                ELSE /\ spc' = "running"
                     /\ responses' = Send(before.chan, nreq + 1, Value(value.val))
            /\ UNCHANGED <<schema, store, sub, committed, delivered, cpc, cpath, cenc, cdec,
                           pureVars, concVars, perm, subscriptions, pumps, egress>>

\* the arms ClientMessage::Insert, Update and Remove: check, call the server,
\* answer Value(Null) or Error(format!("{e}"))
Mutation(op, key, val, out) ==
    /\ LET before == Checked(op)
       IN  IF ~before.goes_on
                THEN /\ spc' = "failed"
                     /\ responses' = before.chan
                     /\ last' = [op |-> op, key |-> key, val |-> val, res |-> Ok(VNull)]
                     /\ UNCHANGED <<store, pumps>>
                ELSE /\ spc' = "running"
                     /\ store' = out.store
                     /\ pumps' = Notify(pumps, out.store, out.written, nreq + 1)
                     /\ last' = [op |-> op, key |-> key, val |-> val, res |-> out.res]
                     /\ responses' = Send(before.chan, nreq + 1,
                            IF out.res.ok THEN Value(VNull) ELSE Error(Display(out.res.err)))
    /\ UNCHANGED <<schema, sub, committed, delivered, cpc, cpath, cenc, cdec,
                   pureVars, concVars, perm, subscriptions, egress>>

SessInsert ==
    /\ Receives
    /\ \E rq \in SessionInserts :
        Mutation("insert", rq[1], rq[2], insert(store, schema, rq[1], rq[2]))

SessUpdate ==
    /\ Receives
    /\ \E rq \in SessionUpdates :
        Mutation("update", rq[1], rq[2], update(store, schema, rq[1], rq[2]))

SessRemove ==
    /\ Receives
    /\ \E key \in SessionRemoves :
        Mutation("remove", key, VNull, remove(store, schema, key))

\* tokio::spawn of the pump of a subscription made while handling request n
SpawnPump(key, n) == [key |-> key, req |-> n, alive |-> TRUE, stream |-> subscribe(key)]

\* HashMap::insert: the handle of key is replaced
MapInsert(map, key, handle) ==
    [k \in DOMAIN map \cup {key} |-> IF k = key THEN handle ELSE map[k]]

\* JoinHandle::abort on the pumps whose handles are in handles
AbortAll(tasks, handles) ==
    [i \in DOMAIN tasks |-> IF i \in handles THEN [tasks[i] EXCEPT !.alive = FALSE] ELSE tasks[i]]

\* ClientMessage::Subscribe
SessSubscribe ==
    /\ Receives
    /\ \E key \in SessionSubscribes :
        LET before == Checked("read")
        IN  /\ last' = [op |-> "subscribe", key |-> key, val |-> VNull, res |-> Ok(VNull)]
            /\ responses' = before.chan
            /\ IF ~before.goes_on
                    THEN spc' = "failed" /\ UNCHANGED <<subscriptions, pumps>>
                    ELSE /\ spc' = "running"
                         /\ pumps' = Append(pumps, SpawnPump(key, nreq + 1))
                         /\ subscriptions' = MapInsert(subscriptions, key, Len(pumps) + 1)
    /\ UNCHANGED <<schema, store, sub, committed, delivered, cpc, cpath, cenc, cdec,
                   pureVars, concVars, perm, egress>>

\* ClientMessage::Unsubscribe
SessUnsubscribe ==
    /\ Receives
    /\ \E key \in SessionSubscribes :
        /\ last' = [op |-> "unsubscribe", key |-> key, val |-> VNull, res |-> Ok(VNull)]
        /\ pumps' = IF key \in DOMAIN subscriptions
                        THEN AbortAll(pumps, {subscriptions[key]})
                        ELSE pumps
    /\ spc' = "running"
    /\ UNCHANGED <<schema, store, sub, committed, delivered, cpc, cpath, cenc, cdec,
                   pureVars, concVars, perm, responses, subscriptions, egress>>

\* the body of a pump's loop: the next event of its stream becomes a
\* SubscriptionUpdate for the subscribed key; String::from_utf8(..).unwrap()
\* ends the task on a value that is not UTF-8
Pump ==
    \E i \in DOMAIN pumps :
        /\ pumps[i].alive
        /\ pumps[i].stream.queue # <<>>
        /\ LET polled == poll_next(pumps[i].stream)
                event == polled.item
           IN  \* from_utf8(..).unwrap() panics on bytes that are not UTF-8, and
               \* sender.send(..).unwrap() panics once send_task dropped the receiver
               IF (event.type = "Insert" /\ ~Utf8Valid(event.value)) \/ ~egress.alive
                    THEN /\ pumps' = [pumps EXCEPT ![i].alive = FALSE,
                                                    ![i].stream = polled.stream]
                         /\ UNCHANGED responses
                    ELSE /\ pumps' = [pumps EXCEPT ![i].stream = polled.stream]
                         /\ responses' = Send(responses, pumps[i].req,
                                SubscriptionUpdate(pumps[i].key,
                                    IF event.type = "Insert" THEN Some(event.value) ELSE None))
        /\ UNCHANGED <<schema, store, last, sub, committed, delivered, cpc, cpath, cenc, cdec,
                       pureVars, concVars, perm, spc, nreq, subscriptions, egress>>

\* ws_recv ends or yields ConnectionClosed: the loop is left and the tasks
\* whose handles the map holds are aborted
SessClose ==
    /\ spc = "running"
    /\ spc' = "closed"
    /\ egress' = [egress EXCEPT !.alive = FALSE]
    /\ pumps' = AbortAll(pumps, {subscriptions[k] : k \in DOMAIN subscriptions})
    /\ UNCHANGED <<schema, store, last, sub, committed, delivered, cpc, cpath, cenc, cdec,
                   pureVars, concVars, perm, nreq, responses, subscriptions>>

\* ws_recv yields another error, or a message that is not text or does not
\* decode: client_task returns the error from inside the loop
SessBadMessage ==
    /\ spc = "running"
    /\ spc' = "failed"
    /\ UNCHANGED <<schema, store, last, sub, committed, delivered, cpc, cpath, cenc, cdec,
                   pureVars, concVars, perm, nreq, responses, subscriptions, pumps, egress>>

\* the body of send_task's loop: the next message of the channel is written
\* to the connection
Egress ==
    /\ egress.alive
    /\ egress.sent < Len(responses)
    /\ egress' = [egress EXCEPT !.sent = @ + 1]
    /\ UNCHANGED <<schema, store, last, sub, committed, delivered, cpc, cpath, cenc, cdec,
                   pureVars, concVars, perm, spc, nreq, responses, subscriptions, pumps>>

\* recv_resp.recv() yields None: client_task is gone, no pump holds a sender
\* and the channel is empty, so send_task returns
EgressEnds ==
    /\ egress.alive
    /\ spc # "running"
    /\ \A i \in DOMAIN pumps : ~pumps[i].alive
    /\ egress.sent = Len(responses)
    /\ egress' = [egress EXCEPT !.alive = FALSE]
    /\ UNCHANGED <<schema, store, last, sub, committed, delivered, cpc, cpath, cenc, cdec,
                   pureVars, concVars, perm, spc, nreq, responses, subscriptions, pumps>>

NextSession ==
    \/ SessGet \/ SessInsert \/ SessUpdate \/ SessRemove
    \/ SessSubscribe \/ SessUnsubscribe \/ Pump \/ SessClose \/ SessBadMessage
    \/ Egress \/ EgressEnds

SpecSession == InitSession /\ [][NextSession]_vars

(***************************************************************************)
(* Concurrent callers                                                      *)
(*                                                                         *)
(* main() hands a clone of the one Server to a task per connection, so     *)
(* calls of different clients run side by side on the same sled tree. A    *)
(* mutation is one sled transaction: sled takes the tree's write lock,     *)
(* runs the closure, and commits its writes before it lets the lock go.    *)
(* Server::get takes no transaction: it is a sequence of single reads,     *)
(* each of which sees the tree as it is at that moment.                    *)
(***************************************************************************)
MaxRounds == 2

Writers == {1, 2}

ConcMembers == {MemberName(1), MemberName(2)}

\* what the two threads call: inserts and removes of members of fruits
ConcRequests ==
    {[op |-> "insert", key |-> <<fruits, n>>, val |-> VObject(color :> VString(<<49>>))]
        : n \in ConcMembers}
    \cup {[op |-> "remove", key |-> <<fruits, n>>, val |-> VNull] : n \in ConcMembers}

ConcGets == {<<fruits>>, <<fruits, MemberName(1)>>}

\* the call of a thread, run to its end on the tree st
run(st, root, c) ==
    CASE c.op = "insert" -> insert(st, root, c.key, c.val)
      [] c.op = "update" -> update(st, root, c.key, c.val)
      [] c.op = "remove" -> remove(st, root, c.key)
      [] OTHER -> [res |-> Ok(VNull), store |-> st, written |-> {}]

\* a transaction that starts whether or not another one holds the tree
stage_NoLock(holder) == TRUE

\* Tree::transaction stages under the tree's write lock: it starts only when
\* no other transaction holds the tree
stage(holder) == holder = 0

\* Tree::transaction commits: the keys the closure wrote or deleted reach the tree
commit(st, out) ==
    [k \in ((DOMAIN st) \ out.written) \cup (out.written \cap DOMAIN out.store)
        |-> IF k \in out.written THEN out.store[k] ELSE st[k]]

RECURSIVE ReadsOf(_, _, _)
RECURSIVE ReadsEach(_, _, _, _)

\* the loops of get over the children of key, in order, up to the first child
\* whose get fails
ReadsEach(st, root, key, names) ==
    IF names = <<>> THEN <<>>
    ELSE LET child == Append(key, Head(names))
         IN  ReadsOf(st, root, child)
                \o (IF get(st, root, child).ok
                        THEN ReadsEach(st, root, key, Tail(names))
                        ELSE <<>>)

\* the keys Server::get reads from the tree, in the order it reads them
ReadsOf(st, root, key) ==
    LET r == resolve(root, key)
        encoded_ref == encode_ref(key)
    IN  IF ~r.ok THEN <<>>
        ELSE CASE r.node.kind = "Collection" ->
                    IF ~StoreHas(st, encoded_ref) THEN <<encoded_ref>>
                    ELSE <<encoded_ref>>
                            \o ReadsEach(st, root, key, Sorted(DeserializeSet(st[encoded_ref])))
               [] r.node.kind = "Document" ->
                    IF ~StoreHas(st, encoded_ref) THEN <<encoded_ref>>
                    ELSE <<encoded_ref>>
                            \o ReadsEach(st, root, key, Sorted(DOMAIN r.node.fields))
               [] r.node.kind = "Scalar" -> <<encoded_ref>>

\* what a get in progress sees: the values it has read, and the tree as it is
\* now at the keys it has not read yet
Sees(rd, st) ==
    [k \in (DOMAIN rd.view) \cup ((DOMAIN st) \ rd.seen)
        |-> IF k \in rd.seen THEN rd.view[k] ELSE st[k]]

\* the reads the get in progress has still to do, in order
ToRead(rd, st, root) ==
    SelectSeq(ReadsOf(Sees(rd, st), root, rd.key), LAMBDA k : k \notin rd.seen)

InitConc ==
    /\ schema = CollectionSchema
    /\ store = EmptyStore
    /\ last = NoRequest
    /\ NoCalls
    /\ sub = NoSub
    /\ committed = <<>>
    /\ delivered = <<>>
    /\ CodecIdle
    /\ PureIdle
    /\ NoSession

\* a thread calls insert or remove
Call ==
    \E w \in Writers, rq \in ConcRequests :
        /\ calls[w].pc = "idle"
        /\ (\A v \in Writers : calls[v].pc = "idle") => round.n < MaxRounds
        /\ calls' = [calls EXCEPT ![w] = [Idle EXCEPT !.pc = "called", !.op = rq.op,
                                                      !.key = rq.key, !.val = rq.val]]
        /\ round' = IF \A v \in Writers : calls[v].pc = "idle"
                        THEN [round EXCEPT !.n = @ + 1]
                        ELSE [round EXCEPT !.overlapped =
                                @ \/ \E v \in Writers : calls[v].pc \in {"called", "staged"}]
        /\ UNCHANGED <<schema, store, last, sub, committed, delivered, cpc, cpath, cenc, cdec,
                       pureVars, sessionVars, lock, reader>>

\* the thread's transaction takes the tree and runs the closure
Stage ==
    \E w \in Writers :
        /\ calls[w].pc = "called"
        /\ stage(lock)
        /\ lock' = w
        /\ calls' = [calls EXCEPT ![w].pc = "staged",
                                  ![w].out = run(store, schema, calls[w])]
        /\ UNCHANGED <<schema, store, last, sub, committed, delivered, cpc, cpath, cenc, cdec,
                       pureVars, sessionVars, round, reader>>

\* the thread's transaction commits, or gives up after an abort, and the call
\* returns
Commit2 ==
    \E w \in Writers :
        /\ calls[w].pc = "staged"
        /\ store' = commit(store, calls[w].out)
        /\ lock' = 0
        /\ calls' = [calls EXCEPT ![w].pc = "done"]
        /\ reader' = IF reader.pc = "reading"
                        THEN [reader EXCEPT !.stores = @ \cup {store'}]
                        ELSE reader
        /\ UNCHANGED <<schema, last, sub, committed, delivered, cpc, cpath, cenc, cdec,
                       pureVars, sessionVars, round>>

\* the threads have taken their results
Join ==
    /\ \A w \in Writers : calls[w].pc \in {"idle", "done"}
    /\ \E w \in Writers : calls[w].pc = "done"
    /\ calls' = [w \in Writers |-> Idle]
    /\ round' = [round EXCEPT !.store = store, !.overlapped = FALSE]
    /\ UNCHANGED <<schema, store, last, sub, committed, delivered, cpc, cpath, cenc, cdec,
                   pureVars, sessionVars, lock, reader>>

NextConc == Call \/ Stage \/ Commit2 \/ Join

SpecConc == InitConc /\ [][NextConc]_vars

(***************************************************************************)
(* The same two threads, and a third one that calls get                    *)
(***************************************************************************)
\* a third thread calls get
GetStart ==
    \E key \in ConcGets :
        /\ reader.pc \in {"idle", "returned"}
        /\ reader' = [NoReader EXCEPT !.pc = "reading", !.key = key, !.stores = {store}]
        /\ UNCHANGED <<schema, store, last, sub, committed, delivered, cpc, cpath, cenc, cdec,
                       pureVars, sessionVars, calls, lock, round>>

\* the get does its next read of the tree
GetRead ==
    /\ reader.pc = "reading"
    /\ LET todo == ToRead(reader, store, schema)
       IN  /\ todo # <<>>
           /\ reader' = [reader EXCEPT
                            !.seen = @ \cup {Head(todo)},
                            !.view = IF StoreHas(store, Head(todo))
                                        THEN StorePut(@, Head(todo), store[Head(todo)])
                                        ELSE @]
    /\ UNCHANGED <<schema, store, last, sub, committed, delivered, cpc, cpath, cenc, cdec,
                   pureVars, sessionVars, calls, lock, round>>

\* the get has read all it reads and returns
GetReturn ==
    /\ reader.pc = "reading"
    /\ ToRead(reader, store, schema) = <<>>
    /\ reader' = [NoReader EXCEPT
                    !.pc = "returned",
                    !.key = reader.key,
                    !.res = get(reader.view, schema, reader.key),
                    !.atomic = {get(st, schema, reader.key) : st \in reader.stores}]
    /\ UNCHANGED <<schema, store, last, sub, committed, delivered, cpc, cpath, cenc, cdec,
                   pureVars, sessionVars, calls, lock, round>>

NextRead == Call \/ Stage \/ Commit2 \/ Join \/ GetStart \/ GetRead \/ GetReturn

SpecRead == InitConc /\ [][NextRead]_vars

(***************************************************************************)
(* Properties of the store                                                 *)
(***************************************************************************)
Node(key) == resolve(schema, key).node
Resolves(key) == resolve(schema, key).ok
IsKind(key, kind) == Resolves(key) /\ Node(key).kind = kind
\* this step is a call of op
Calls(op) == last.op = "none" /\ last'.op = op
\* the last call was op and it succeeded
Succeeded(op) == last.op = op /\ last.res.ok

\* the membership set stored at E(C), an absent key counting as the empty set
IndexAt(st, C) ==
    IF StoreHas(st, encode_ref(C)) THEN DeserializeSet(st[encode_ref(C)]) ELSE {}

\* the first-level child names N of C with a physical key in the sub-tree of C.N
ChildrenWithKeys(st, C) ==
    {decode_ref(k).path[Len(C) + 1] :
        k \in {x \in DOMAIN st : IsPrefix(encode_ref(C), x) /\ x # encode_ref(C)}}

CollectionPaths == {t.path : t \in {x \in Targets(schema, <<>>, 0) : x.node.kind = "Collection"}}

\* C1: after a successful insert(P, V), get(P) returns exactly V
C1_InsertThenGet ==
    Succeeded("insert") => get(store, schema, last.key) = Ok(last.val)

\* C2: an insert that fails leaves every key and value of the store as it was,
\* and get(P) returns what it returned before the call
C2_FailedInsertRollsBack ==
    [][(Calls("insert") /\ ~last'.res.ok) =>
            /\ store' = store
            /\ get(store', schema, last'.key) = get(store, schema, last'.key)]_vars

\* an insert was rejected with SchemaMismatch at its last field, after the
\* presence marker and the sibling field were written in the transaction, on a
\* store that holds data
C2_Witness ==
    /\ last.op = "insert"
    /\ last.res = Err(SchemaMismatch)
    /\ last.key = <<hello>>
    /\ last.val = VObject((new_york :> VString(<<49>>)) @@ (world :> VArray))
    /\ store # EmptyStore

\* C3: after a successful insert, update or remove, the set stored at E(C) of
\* every collection path C is the set of child names with a key below them
C3_IndexSound ==
    (last.op \in {"insert", "update", "remove"} /\ last.res.ok) =>
        \A C \in CollectionPaths : IndexAt(store, C) = ChildrenWithKeys(store, C)

\* C4: update(P, V) of a present document with a record V of some of its
\* (scalar, present) fields succeeds, writes the fields of V, keeps the other
\* fields and keeps the presence marker
C4_UpdateDocument ==
    [][(/\ Calls("update")
        /\ IsKind(last'.key, "Document")
        /\ StoreHas(store, encode_ref(last'.key))
        /\ last'.val.t = "Object"
        /\ \A f \in DOMAIN last'.val.m :
                /\ f \in DOMAIN Node(last'.key).fields
                /\ Node(last'.key).fields[f].kind = "Scalar"
                /\ last'.val.m[f].t = "String"
                /\ StoreHas(store, encode_ref(Append(last'.key, f))))
        => /\ last'.res.ok
           /\ StoreHas(store', encode_ref(last'.key))
           /\ \A f \in DOMAIN Node(last'.key).fields :
                LET k == encode_ref(Append(last'.key, f))
                IN  IF f \in DOMAIN last'.val.m
                        THEN StoreHas(store', k) /\ store'[k] = last'.val.m[f].s
                        ELSE StoreHas(store', k) = StoreHas(store, k)
                                /\ (StoreHas(store, k) => store'[k] = store[k])]_vars

\* the value update is given has the kind the node at key takes
KindMatches(key, val) ==
    IF Node(key).kind = "Scalar" THEN val.t = "String" ELSE val.t = "Object"

\* C5: update(P, V) with no key at E(P) fails with KeyNotFound and leaves the
\* store unchanged
C5_UpdateAbsent ==
    [][(Calls("update") /\ Resolves(last'.key) /\ ~StoreHas(store, encode_ref(last'.key)))
        => (last'.res = Err(KeyNotFound) /\ store' = store)]_vars

\* C5 (amended): update(P, V) with no key at E(P) fails and leaves the store
\* unchanged; it fails with KeyNotFound when V has the kind of P's node (a
\* record for a document or collection, a string for a scalar) and with
\* SchemaMismatch when it has not
C5_UpdateAbsentAmended ==
    [][(Calls("update") /\ Resolves(last'.key) /\ ~StoreHas(store, encode_ref(last'.key)))
        => /\ last'.res = Err(IF KindMatches(last'.key, last'.val)
                                THEN KeyNotFound ELSE SchemaMismatch)
           /\ store' = store]_vars

\* update was called with a record on a document without presence marker, in
\* a store that holds other keys
C5_Witness ==
    /\ last.op = "update"
    /\ IsKind(last.key, "Document")
    /\ last.val.t = "Object"
    /\ ~StoreHas(store, encode_ref(last.key))
    /\ store # EmptyStore
    /\ last.res = Err(KeyNotFound)

\* C6: remove(P) and then get(P) gives KeyNotFound at a scalar, null at a
\* document, the empty record at a collection
C6_RemoveThenGet ==
    (last.op = "remove" /\ Resolves(last.key)) =>
        get(store, schema, last.key) =
            CASE Node(last.key).kind = "Scalar" -> Err(KeyNotFound)
              [] Node(last.key).kind = "Document" -> Ok(VNull)
              [] Node(last.key).kind = "Collection" -> Ok(VObject(EmptyMap))

Parent(key) == SubSeq(key, 1, Len(key) - 1)
LastName(key) == key[Len(key)]

\* C7: after a successful remove(C.N) with C a collection, N is not in the set
\* at E(C), get(C) has no entry N, and every other member is still in the set
\* and reads as before
C7_RemoveMember ==
    [][(Calls("remove") /\ last'.res.ok /\ Len(last'.key) > 0
            /\ IsKind(Parent(last'.key), "Collection"))
        => LET C == Parent(last'.key)
               N == LastName(last'.key)
           IN  /\ N \notin IndexAt(store', C)
               /\ get(store', schema, C).ok => N \notin DOMAIN get(store', schema, C).val.m
               /\ \A M \in IndexAt(store, C) \ {N} :
                    /\ M \in IndexAt(store', C)
                    /\ get(store', schema, Append(C, M)) = get(store, schema, Append(C, M))]_vars

\* a member of a collection was removed and another member is still there
C7_Witness ==
    /\ Succeeded("remove")
    /\ Len(last.key) > 0
    /\ IsKind(Parent(last.key), "Collection")
    /\ IndexAt(store, Parent(last.key)) # {}
    /\ get(store, schema, Parent(last.key)).ok

(***************************************************************************)
(* Properties of the subscription stream                                   *)
(***************************************************************************)
RECURSIVE Flatten(_)
Flatten(commits) ==
    IF commits = <<>> THEN <<>>
    ELSE Head(commits).events \o Flatten(Tail(commits))

\* every key written by a commit since the subscription was opened
AllCommitted == Flatten(committed)

MapSeq(Op(_), seq) == [i \in 1..Len(seq) |-> Op(seq[i])]

\* what the stream on sub.key owes: for each committed write or delete of a
\* key that has E(sub.key) as a byte prefix, in commit order, Insert with the
\* decoded path and the raw value, or Remove with the decoded path
Owed ==
    LET prefix == encode_ref(sub.key)
        under == SelectSeq(AllCommitted, LAMBDA e : IsPrefix(prefix, e.key))
    IN  [i \in 1..Len(under) |->
            [type |-> under[i].type, key |-> decode_ref(under[i].key).path,
             value |-> under[i].value, commit |-> under[i].commit]]

\* the events the stream is still to yield
Pending == MapSeq(project, sub.queue)

\* since the subscription on a scalar was opened, every commit was an update of it
OnlyScalarUpdates ==
    /\ sub.active
    /\ resolve(schema, sub.key).ok
    /\ resolve(schema, sub.key).node.kind = "Scalar"
    /\ \A i \in 1..Len(committed) :
            committed[i].op = "update" /\ committed[i].key = sub.key

\* C8: the stream delivers the events of an earlier commit before any event of
\* a later one, and n updates of the subscribed scalar yield n Insert events
\* at that path with the written values in the order they were written
C8_CommitOrder ==
    /\ \A i, j \in 1..Len(delivered) : i < j => delivered[i].commit <= delivered[j].commit
    /\ \A i \in 1..Len(delivered) : \A q \in 1..Len(sub.queue) :
            delivered[i].commit <= sub.queue[q].commit
    /\ OnlyScalarUpdates =>
            delivered \o Pending =
                [i \in 1..Len(committed) |->
                    [type |-> "Insert", key |-> sub.key,
                     value |-> committed[i].val.s, commit |-> i]]

\* two updates of the subscribed scalar were committed while an event of the
\* first was still queued, and both were delivered
C8_Witness ==
    /\ OnlyScalarUpdates
    /\ Len(committed) = 2
    /\ committed[1].val # committed[2].val
    /\ Len(delivered) = 2
    /\ delivered[1].commit = 1 /\ delivered[2].commit = 2

\* C9: the stream yields exactly the events it owes, one per committed write
\* or delete of a key under E(P), none dropped, none added: what it has
\* yielded is the start of them and what it holds is the rest; and the path of
\* every event extends P
C9_OneEventPerWrite ==
    sub.active =>
        LET owed == Owed
            all == AllCommitted
            prefix == encode_ref(sub.key)
        IN  /\ Len(delivered) + Len(sub.queue) = Len(owed)
            /\ delivered = SubSeq(owed, 1, Len(delivered))
            /\ \A i \in 1..Len(delivered) : IsPrefix(sub.key, delivered[i].key)
            /\ \A i \in 1..Len(all) :
                    LET decoded == decode_ref(all[i].key)
                    IN  /\ decoded.ok
                        /\ IsPrefix(sub.key, decoded.path)
                                <=> IsPrefix(prefix, all[i].key)

\* a stream on a collection has delivered the removal of a member's key and
\* the write of the collection's membership set that came with it, while a
\* commit also wrote a key that does not extend E(P), the marker of the root
C9_Witness ==
    /\ sub.active
    /\ sub.key = <<fruits>>
    /\ sub.queue = <<>>
    /\ \E i \in 1..Len(delivered) :
            delivered[i].type = "Remove" /\ delivered[i].key = <<fruits, MemberName(1)>>
    /\ \E i \in 1..Len(delivered) :
            /\ delivered[i].type = "Insert"
            /\ delivered[i].key = <<fruits>>
            /\ delivered[i].value = SerializeSet({})
    /\ \E i \in 1..Len(AllCommitted) : ~IsPrefix(sub.prefix, AllCommitted[i].key)

(***************************************************************************)
(* Properties of the path codec                                            *)
(***************************************************************************)
\* C10: decode_ref(encode_ref(P)) = P for every path P
C10_RoundTrip ==
    cpc = "decoded" => (cdec.ok /\ cdec.path = cpath)

\* a path of three components, the empty string and a two-byte character
\* among them, went through encode_ref and decode_ref
C10_Witness ==
    /\ cpc = "decoded"
    /\ cpath = <<(<<>>), (<<195, 169>>), (<<97>>)>>
    /\ cdec.ok
    /\ Len(cenc) = 27

\* C11: encode_ref(A) is a byte prefix of encode_ref(B) exactly when A is an
\* ancestor of B or B itself; so encode_ref is injective, and sibling names
\* of which one starts with the other have keys that are not prefix-related
C11_PrefixIffAncestor ==
    cpc = "encoded" =>
        /\ IsPrefix(cenc, cotherenc) <=> IsPrefix(cpath, cother)
        /\ cenc = cotherenc => cpath = cother
        /\ (/\ Len(cpath) = Len(cother)
            /\ cpath # <<>>
            /\ SubSeq(cpath, 1, Len(cpath) - 1) = SubSeq(cother, 1, Len(cother) - 1)
            /\ cpath[Len(cpath)] # cother[Len(cother)])
                => ~IsPrefix(cenc, cotherenc) /\ ~IsPrefix(cotherenc, cenc)

\* two siblings under one parent, the name of one starting with the name of the
\* other, were encoded
C11_Witness ==
    /\ cpc = "encoded"
    /\ cpath = <<(<<97>>), (<<97>>)>>
    /\ cother = <<(<<97>>), (<<97, 97>>)>>
    /\ cenc # cotherenc
    /\ Len(cotherenc) = Len(cenc) + 1

\* the bytes are the encoding of a path
IsEncoding(bytes) == \E k \in 0..Len(cpath) : bytes = encode_ref(SubSeq(cpath, 1, k))

\* C12: decode_ref of bytes that are not an output of encode_ref (a cut length
\* field, a length past the end of the input) returns the error CorruptKey:
\* it neither panics nor returns a path
C12_MalformedIsCorruptKey ==
    (cpc # "encoded" /\ ~IsEncoding(cenc)) =>
        /\ cpc # "panicked"
        /\ ~cdec.ok
        /\ "err" \in DOMAIN cdec
        /\ cdec.err = "CorruptKey"

\* C13: resolve consumes one name per step from the root. The empty path gives
\* the root. For a path that is one name longer than a path reaching node N:
\* if N is a Document the name must be declared (else UnknownField) and the
\* result is that field's node; if N is a Collection any name gives the inner
\* node; if N is a Scalar the result is IllegalRefOnScalar. A path that
\* extends a path that fails, fails the same way.
C13_ResolveWalk ==
    cpc = "resolved" =>
        IF cpath = <<>> THEN resolved.ok /\ resolved.node = schema
        ELSE
            LET before == resolve(schema, SubSeq(cpath, 1, Len(cpath) - 1))
                name == cpath[Len(cpath)]
            IN  CASE ~before.ok ->
                        ~resolved.ok /\ resolved.err = before.err
                  [] before.ok /\ before.node.kind = "Document" ->
                        IF name \in DOMAIN before.node.fields
                            THEN resolved.ok /\ resolved.node = before.node.fields[name]
                            ELSE ~resolved.ok /\ resolved.err = UnknownField
                  [] before.ok /\ before.node.kind = "Collection" ->
                        resolved.ok /\ resolved.node = before.node.inner
                  [] before.ok /\ before.node.kind = "Scalar" ->
                        ~resolved.ok /\ resolved.err = IllegalRefOnScalar

\* a path through a document field and a collection member, whose name no
\* schema declares, to a scalar field was resolved
C13_Witness ==
    /\ cpc = "resolved"
    /\ schema = CollectionSchema
    /\ cpath = <<fruits, Undeclared, color>>
    /\ resolved.ok
    /\ resolved.node = Scalar

\* what is wrong with val as a value for node, anywhere inside it: "extra"
\* for a record with an undeclared key at a Document, "mismatch" for a record
\* that lacks a declared field, a value that is not a record at a Document or
\* Collection, and a value that is not a string at a Scalar
RECURSIVE Defects(_, _)
Defects(node, val) ==
    CASE node.kind = "Scalar" -> IF val.t = "String" THEN {} ELSE {"mismatch"}
      [] node.kind = "Document" ->
            IF val.t # "Object" THEN {"mismatch"}
            ELSE (IF DOMAIN val.m \subseteq DOMAIN node.fields THEN {} ELSE {"extra"})
                 \cup (IF DOMAIN node.fields \subseteq DOMAIN val.m THEN {} ELSE {"mismatch"})
                 \cup UNION {Defects(node.fields[f], val.m[f]) :
                                f \in DOMAIN node.fields \cap DOMAIN val.m}
      [] node.kind = "Collection" ->
            IF val.t # "Object" THEN {"mismatch"}
            ELSE UNION {Defects(node.inner, val.m[n]) : n \in DOMAIN val.m}

\* C14: an insert at a Document or Collection succeeds exactly when, at every
\* Document in the value, the record's keys are the declared fields, every
\* Scalar slot holds a string and every Document or Collection slot a record.
\* It fails with ExtraKeyFound only for an undeclared key and with
\* SchemaMismatch only for a missing field or a value of the wrong kind; at
\* the target Document, a record with an undeclared key gives ExtraKeyFound, a
\* record of declared keys that lacks one gives SchemaMismatch, and a value
\* that is not a record gives SchemaMismatch.
C14_InsertShape ==
    (last.op = "insert" /\ Resolves(last.key) /\ Node(last.key).kind # "Scalar") =>
        LET node == Node(last.key)
            val == last.val
            found == Defects(node, val)
        IN  /\ last.res.ok <=> found = {}
            /\ ~last.res.ok =>
                    /\ last.res.err \in {ExtraKeyFound, SchemaMismatch}
                    /\ last.res.err = ExtraKeyFound => "extra" \in found
                    /\ last.res.err = SchemaMismatch => "mismatch" \in found
            /\ val.t # "Object" => last.res = Err(SchemaMismatch)
            /\ (node.kind = "Document" /\ val.t = "Object") =>
                    /\ ~(DOMAIN val.m \subseteq DOMAIN node.fields)
                            => last.res = Err(ExtraKeyFound)
                    /\ (/\ DOMAIN val.m \subseteq DOMAIN node.fields
                        /\ DOMAIN val.m # DOMAIN node.fields)
                            => last.res = Err(SchemaMismatch)

\* an insert at the root was rejected with ExtraKeyFound for an undeclared
\* key of the document under it, which was reached recursively
C14_Witness ==
    /\ last.op = "insert"
    /\ schema = DocumentSchema
    /\ last.key = <<>>
    /\ last.val.t = "Object"
    /\ DOMAIN last.val.m = {hello}
    /\ last.val.m[hello].t = "Object"
    /\ Undeclared \in DOMAIN last.val.m[hello].m
    /\ last.res = Err(ExtraKeyFound)

\* the keys of Scalar paths that the step wrote: created, or given a new value
ScalarKeysWritten ==
    {k \in DOMAIN store' :
        /\ decode_ref(k).ok
        /\ IsKind(decode_ref(k).path, "Scalar")
        /\ (k \notin DOMAIN store \/ store[k] # store'[k])}

\* C15: insert(P, V) at a Scalar P is rejected with NonDocumentInsert whatever
\* V is, and leaves the store as it was; a step that writes the key of a
\* Scalar is an update or an insert at a Document or Collection above it
C15_ScalarInsertRejected ==
    [][/\ (Calls("insert") /\ IsKind(last'.key, "Scalar")) =>
            (last'.res = Err(NonDocumentInsert) /\ store' = store)
       /\ \A k \in ScalarKeysWritten :
            \/ last'.op = "update"
            \/ /\ last'.op = "insert"
               /\ IsPrefix(last'.key, decode_ref(k).path)
               /\ last'.key # decode_ref(k).path
               /\ Node(last'.key).kind \in {"Document", "Collection"}]_vars

\* an insert of a new string at a scalar that holds another string was rejected
C15_Witness ==
    /\ last.op = "insert"
    /\ IsKind(last.key, "Scalar")
    /\ last.val = VString(<<50>>)
    /\ last.res = Err(NonDocumentInsert)
    /\ StoreHas(store, encode_ref(last.key))
    /\ store[encode_ref(last.key)] = <<49>>

\* the declared Scalar fields of the Document at key that have no physical key
MissingScalarFields(key) ==
    {f \in DOMAIN Node(key).fields :
        /\ Node(key).fields[f].kind = "Scalar"
        /\ ~StoreHas(store, encode_ref(Append(key, f)))}

\* C16: get(P) on a Document whose presence marker is there while a declared
\* scalar field has no physical key returns a record; it does not fail with
\* KeyNotFound
C16_AbsentFieldTolerated ==
    (/\ last.op = "get"
     /\ IsKind(last.key, "Document")
     /\ StoreHas(store, encode_ref(last.key))
     /\ MissingScalarFields(last.key) # {}) =>
        /\ last.res.ok
        /\ last.res.val.t = "Object"

\* C17: get of a path that resolves and has no physical key gives KeyNotFound
\* at a Scalar, null at a Document and the empty record at a Collection; on
\* the fresh store that is every path that resolves
C17_GetAbsent ==
    (/\ last.op = "get"
     /\ Resolves(last.key)
     /\ ~StoreHas(store, encode_ref(last.key))) =>
        CASE Node(last.key).kind = "Scalar" -> last.res = Err(KeyNotFound)
          [] Node(last.key).kind = "Document" -> last.res = Ok(VNull)
          [] Node(last.key).kind = "Collection" -> last.res = Ok(VObject(EmptyMap))

\* get of a collection that has no key gave the empty record, on a store
\* that holds the marker of the document above it
C17_Witness ==
    /\ last.op = "get"
    /\ IsKind(last.key, "Collection")
    /\ ~StoreHas(store, encode_ref(last.key))
    /\ StoreHas(store, encode_ref(Parent(last.key)))
    /\ last.res = Ok(VObject(EmptyMap))

(***************************************************************************)
(* Properties of a client session                                          *)
(***************************************************************************)
\* this step handles a request of kind op
Handles(op) == nreq' = nreq + 1 /\ last'.op = op

\* the Operation the handler of a request asks the script about
OperationOf(op) == IF op \in {"get", "subscribe"} THEN "read" ELSE op

\* C18: when the script answers false for a Get, Insert, Update, Remove or
\* Subscribe, the session sends Error("permissions") and nothing else for the
\* request, the store is not changed and no subscription is made
C18_DeniedIsSkipped ==
    [][\A op \in {"get", "insert", "update", "remove", "subscribe"} :
            (Handles(op) /\ check(perm, OperationOf(op)) = "deny") =>
                /\ responses' = Send(responses, nreq', Error("permissions"))
                /\ store' = store
                /\ pumps' = pumps
                /\ subscriptions' = subscriptions]_vars

\* C19: the handling of a Get, Insert, Update or Remove sends exactly one
\* response, and the handling of an Unsubscribe sends none
C19_OneResponse ==
    [][/\ \A op \in {"get", "insert", "update", "remove"} :
            Handles(op) => Len(responses') = Len(responses) + 1
       /\ Handles("unsubscribe") => responses' = responses]_vars

\* C20: when the server returns an error for a Get, Insert, Update or Remove,
\* the session sends an Error response with the error's text and goes on to
\* take the next request
C20_StoreErrorReported ==
    [][\A op \in {"get", "insert", "update", "remove"} :
            (Handles(op) /\ check(perm, OperationOf(op)) # "error" /\ ~last'.res.ok) =>
                /\ spc' = "running"
                /\ Len(responses') > Len(responses)
                /\ responses'[Len(responses')] =
                        [req |-> nreq', msg |-> Error(Display(last'.res.err))]]_vars

\* the pumps spawned for key that still run
RunningPumps(tasks, key) == {i \in DOMAIN tasks : tasks[i].key = key /\ tasks[i].alive}

\* C21: once the session has handled Unsubscribe(P), no pump for P runs,
\* whatever Subscribe and Unsubscribe requests came before, Subscribe(P)
\* more than once included; and a pump that does not run sends nothing
C21_UnsubscribeStopsPumps ==
    [][/\ Handles("unsubscribe") => RunningPumps(pumps', last'.key) = {}
       /\ \A i \in DOMAIN pumps :
            (~pumps[i].alive /\ i \in DOMAIN pumps') =>
                /\ ~pumps'[i].alive
                /\ Len(SelectSeq(responses', LAMBDA r : r.req = pumps[i].req))
                        = Len(SelectSeq(responses, LAMBDA r : r.req = pumps[i].req))]_vars

\* the session has ended by a clean close or by an error returned from the loop
Terminated(pc) == pc \in {"closed", "failed"}

\* C22: when a session ends, by a clean close, a connection error, a message
\* that does not decode or an error of the permission script, its egress task
\* and all its pumps are cancelled: from then on nothing is written to the
\* connection and no pump sends
C22_TerminationCancels ==
    [][/\ Terminated(spc') =>
            /\ ~egress'.alive
            /\ \A i \in DOMAIN pumps' : ~pumps'[i].alive
       /\ Terminated(spc) =>
            /\ egress'.sent = egress.sent
            /\ responses' = responses]_vars

\* the store after call a and then call b, each run alone, from st
Then(st, a, b) == run(run(st, schema, a).store, schema, b).store

\* C23: two mutations of members of one collection that run side by side
\* leave the store as one of the two serial orders would: no update of the
\* membership set at E(C) is lost
C23_Serializable ==
    (\A w \in Writers : calls[w].pc \in {"idle", "done"}) =>
        store \in {Then(round.store, calls[1], calls[2]), Then(round.store, calls[2], calls[1])}

\* two inserts of distinct members overlapped and both are in the membership set
C23_Witness ==
    /\ \A w \in Writers : calls[w].pc = "done" /\ calls[w].op = "insert" /\ calls[w].out.res.ok
    /\ calls[1].key # calls[2].key
    /\ round.overlapped
    /\ IndexAt(store, <<fruits>>) = ConcMembers

\* C24: a get that runs beside mutations returns what get gives on the store
\* as it was before or after one of their commits, never a mixture
C24_GetAtomic ==
    reader.pc = "returned" => reader.res \in reader.atomic

\* C25: no remove call, successful or not, leaves a physical key in the store
\* that was absent before the call
C25_RemoveAddsNoKey ==
    [][Calls("remove") => DOMAIN store' \subseteq DOMAIN store]_vars

\* the value v has the layout of the schema node: the bytes of a string for a
\* Scalar, the presence byte for a Document, an encoded set of names for a
\* Collection
Layout(node, v) ==
    CASE node.kind = "Scalar" -> Utf8Valid(v)
      [] node.kind = "Document" -> v = Marker
      [] node.kind = "Collection" ->
            /\ Len(v) >= 8
            /\ v = SerializeSet(DeserializeSet(v))

\* C26: after any sequence of insert, update and remove calls, every key in
\* the store is the encoding of a path that resolve accepts, and its value has
\* the layout of the path's schema node
C26_SchemaConsistent ==
    \A k \in DOMAIN store :
        LET d == decode_ref(k)
        IN  /\ d.ok
            /\ encode_ref(d.path) = k
            /\ resolve(schema, d.path).ok
            /\ Layout(resolve(schema, d.path).node, store[k])

\* the store holds a key of each kind after calls of all three operations
C26_Witness ==
    /\ \A kind \in {"Scalar", "Document", "Collection"} :
            \E k \in DOMAIN store : resolve(schema, decode_ref(k).path).node.kind = kind
    /\ last.op = "remove" /\ last.res.ok

\* the keys of the store at strict descendants of the path
KeysBelow(st, path) ==
    {k \in DOMAIN st : k # encode_ref(path) /\ IsPrefix(encode_ref(path), k)}

\* the Document paths of the schema that requests address, the root included
DocumentPaths == {t.path : t \in {x \in Targets(schema, <<>>, 0) : x.node.kind = "Document"}}

\* C27: get of a Document path, the root included, returns null only when the
\* store has no key at any strict descendant of the path
C27_NullMeansEmpty ==
    \A p \in DocumentPaths :
        get(store, schema, p) = Ok(VNull) => KeysBelow(store, p) = {}

RECURSIVE NamedScalars(_, _)
\* the Scalar keys that the value names at or below the path
NamedScalars(path, val) ==
    IF ~Resolves(path) THEN {}
    ELSE IF Node(path).kind = "Scalar" THEN {encode_ref(path)}
    ELSE IF val.t # "Object" THEN {}
    ELSE UNION {NamedScalars(Append(path, n), val.m[n]) : n \in DOMAIN val.m}

\* C28: a successful update(P, V) adds no key and removes none, and changes
\* the value of no key but a Scalar key that V names at or below P; so it
\* changes no membership set of a collection
C28_UpdateFrame ==
    [][(Calls("update") /\ last'.res.ok) =>
            /\ DOMAIN store' = DOMAIN store
            /\ \A k \in DOMAIN store :
                    store'[k] # store[k] => k \in NamedScalars(last'.key, last'.val)
            /\ \A C \in CollectionPaths : IndexAt(store', C) = IndexAt(store, C)]_vars

\* a successful update of a collection has given a member the value it names
C28_Witness ==
    /\ Succeeded("update")
    /\ last.val.t = "Object"
    /\ \E n \in DOMAIN last.val.m :
            /\ last.val.m[n].t = "String"
            /\ StoreHas(store, encode_ref(Append(last.key, n)))
            /\ store[encode_ref(Append(last.key, n))] = last.val.m[n].s
    /\ \E k \in DOMAIN store : k \notin NamedScalars(last.key, last.val)

====
